---- MODULE Spec2Model ----
(***************************************************************************)
(* CloudNav backend: the storage handlers (src/storage.ts and              *)
(* src/functions/api/storage.ts), the link insertion handler               *)
(* (src/functions/api/link.ts) and the key-value clients they call.        *)
(*                                                                         *)
(* JavaScript values are encoded as follows.                               *)
(*   - a value that may be null/undefined is a sequence of length 0 or 1   *)
(*     (None, Some(v));                                                    *)
(*   - a JSON text is the record [json |-> v], v the value it denotes      *)
(*     with the properties JSON.stringify drops already dropped;           *)
(*   - a decimal string (Date.now().toString()) is its sequence of digits. *)
(***************************************************************************)
EXTENDS Integers, Sequences, FiniteSets, TLC

None == <<>>
Some(v) == <<v>>

\* obj.k of a parsed JSON object: undefined when the property is absent
Prop(obj, k) == IF k \in DOMAIN obj THEN Some(obj[k]) ELSE None

\* truthiness of an optional string: null, undefined and '' are falsy
Truthy(o) == o # None /\ o[1] # ""

\* a === b for a header (string | null) against env.PASSWORD (string | undefined)
StrictEq(a, b) == a # None /\ b # None /\ a[1] = b[1]

----------------------------------------------------------------------------
(* Bounds of the model *)

MaxMs == 1          \* milliseconds the clock advances within a day
MaxDays == 1        \* days the clock advances
MaxLinks == 3       \* links in app_data before insertions stop being issued
MaxCats == 2        \* categories in the lists the category search is tried on
MaxWeeks == 1       \* default expiry periods the clock advances

(* Program constants *)

DayMs == 24 * 60 * 60 * 1000
FaviconTtl == 30 * 24 * 60 * 60
DefaultExpiryDays == 7

----------------------------------------------------------------------------
(* Conversions *)

Digits == <<"0", "1", "2", "3", "4", "5", "6", "7", "8", "9">>

RECURSIVE toString(_)
\* Number.prototype.toString() of a non-negative integer
toString(n) == IF n < 10 THEN <<Digits[n + 1]>>
               ELSE toString(n \div 10) \o <<Digits[(n % 10) + 1]>>

DigitValue(c) == (CHOOSE i \in 1..10 : Digits[i] = c) - 1

RECURSIVE parseInt(_)
\* parseInt of a string of decimal digits
parseInt(s) == IF Len(s) = 1 THEN DigitValue(s[1])
               ELSE 10 * parseInt(SubSeq(s, 1, Len(s) - 1)) + DigitValue(s[Len(s)])

\* JSON.stringify of a value without undefined properties
JSONstringify(v) == [json |-> v]

\* JSON.parse of a text written by JSON.stringify
JSONparse(s) == s.json

\* the object literal {}
EmptyObject == [k \in {} |-> 0]

----------------------------------------------------------------------------
(* The key-value store and its clients.  A call to the remote store either *)
(* is served ("ok") or fails ("error": a non-404 status, a network error,  *)
(* an exception of the binding).  Every client operation returns what the  *)
(* handler sees and the calls that reached the store.                      *)

Domains == {"d1"}
FaviconKey(domain) == "favicon:" \o domain
Keys == {"app_data", "ai_config", "search_config", "website_config",
         "last_auth_time"} \cup {FaviconKey(d) : d \in Domains}

Outcomes == {"ok", "error"}

GetCall(key, outcome) == [op |-> "get", key |-> key, served |-> outcome = "ok"]
PutCall(key, value, expiration, outcome) ==
  [op |-> "put", key |-> key, value |-> value, expiration |-> expiration,
   served |-> outcome = "ok"]

\* HTTP status the remote store answers a GET with
RemoteGetStatus(store, key, outcome) ==
  IF outcome = "error" THEN 500 ELSE IF store[key] = None THEN 404 ELSE 200

\* variant: a failed read is tried once more
ApiKV_get_Retry(store, key, outcome) ==
  LET status == RemoteGetStatus(store, key, outcome)
  IN [val |-> IF status = 404 THEN None
              ELSE IF ~(status \in 200..299) THEN None
              ELSE store[key],
      calls |-> IF outcome = "error"
                THEN <<GetCall(key, outcome), GetCall(key, outcome)>>
                ELSE <<GetCall(key, outcome)>>]

\* EdgeOneKVClient.get of the HTTP client
ApiKV_get(store, key, outcome) ==
  LET status == RemoteGetStatus(store, key, outcome)
  IN [val |-> IF status = 404 THEN None
              ELSE IF ~(status \in 200..299) THEN None
              ELSE store[key],
      calls |-> <<GetCall(key, outcome)>>]

\* EdgeOneKVClient.put of the HTTP client: a failure is rethrown
ApiKV_put(store, key, value, ttl, outcome) ==
  [store |-> IF outcome = "ok" THEN [store EXCEPT ![key] = Some(value)] ELSE store,
   threw |-> outcome # "ok",
   stored |-> outcome = "ok",
   calls |-> <<PutCall(key, value, IF ttl # None /\ ttl[1] # 0 THEN ttl ELSE None,
                       outcome)>>]

\* EdgeOneKVClient.get of the binding client (env.CLOUDNAV_KV)
BindKV_get(bound, store, key, outcome) ==
  IF ~bound THEN [val |-> None, calls |-> <<>>]
  ELSE IF outcome = "error" THEN [val |-> None, calls |-> <<GetCall(key, outcome)>>]
  ELSE [val |-> store[key], calls |-> <<GetCall(key, outcome)>>]

\* EdgeOneKVClient.put of the binding client: options are not forwarded and
\* a failure is swallowed
BindKV_put(bound, store, key, value, ttl, outcome) ==
  IF ~bound THEN [store |-> store, threw |-> FALSE, stored |-> FALSE, calls |-> <<>>]
  ELSE [store |-> IF outcome = "ok" THEN [store EXCEPT ![key] = Some(value)] ELSE store,
        threw |-> FALSE,
        stored |-> outcome = "ok",
        calls |-> <<PutCall(key, value, None, outcome)>>]

KvGet(client, bound, store, key, outcome) ==
  IF client = "api" THEN ApiKV_get(store, key, outcome)
  ELSE BindKV_get(bound, store, key, outcome)

KvPut(client, bound, store, key, value, ttl, outcome) ==
  IF client = "api" THEN ApiKV_put(store, key, value, ttl, outcome)
  ELSE BindKV_put(bound, store, key, value, ttl, outcome)

----------------------------------------------------------------------------
(* State *)

VARIABLES
  kv,         \* the key-value store: key -> None | Some(string)
  PASSWORD,   \* env.PASSWORD: None (unset) | Some(string)
  now,        \* the clock read by Date.now()
  pending,    \* link insertions in flight, per connection
  request,    \* the request handled last
  response,   \* the response to it
  calls       \* the calls it made to the store

vars == <<kv, PASSWORD, now, pending, request, response, calls>>

Response(status, body) == [status |-> status, body |-> JSONstringify(body)]
ErrorBody(msg) == [error |-> msg]
SuccessBody == [success |-> TRUE]

\* new Response(text, ...): the body is a string the handler already holds
RawResponse(status, text) == [status |-> status, body |-> text]

\* a handler result that touches the store not at all
Answer(store, resp) == [kv |-> store, response |-> resp, calls |-> <<>>, stored |-> FALSE]

----------------------------------------------------------------------------
(* The storage handlers: src/functions/api/storage.ts (client "api") and   *)
(* src/storage.ts (client "binding").  The two files differ in the client  *)
(* only.                                                                   *)

\* the error texts of the GET gate, written by their code points
MsgWrongPassword == "U5BC6U7801U9519U8BEF"
MsgPasswordExpired ==
  "U5BC6U7801U5DF2U8FC7U671FUFF0CU8BF7U91CDU65B0U8F93U5165"

Malformed == [malformed |-> TRUE]             \* a body request.json() rejects
IsMalformed(body) == "malformed" \in DOMAIN body

\* the gate of the authOnly branch
AuthOnlyGate(password, hdr) ==
  IF ~Truthy(password) THEN "misconfigured"
  ELSE IF ~StrictEq(hdr, password) THEN "unauthorized"
  ELSE "ok"

\* variant: the search config is gated like the other saves
SearchSaveRejected_Always(password, hdr) == ~Truthy(hdr) \/ ~StrictEq(hdr, password)

\* the gate of saveConfig === 'search': a password is asked for only when the
\* server has one
SearchSaveRejected(password, hdr) ==
  Truthy(password) /\ (~Truthy(hdr) \/ ~StrictEq(hdr, password))

\* variant: a server without PASSWORD accepts the save
SaveGate_NoMisconfigured(password, hdr) ==
  IF Truthy(password)
  THEN IF ~Truthy(hdr) \/ ~StrictEq(hdr, password) THEN "unauthorized" ELSE "ok"
  ELSE "ok"

\* variant: any header that is present passes
SaveGate_AnyHeader(password, hdr) ==
  IF Truthy(password)
  THEN IF ~Truthy(hdr) THEN "unauthorized" ELSE "ok"
  ELSE "misconfigured"

\* the gate of the remaining saves (AI config, website config, app data)
SaveGate(password, hdr) ==
  IF Truthy(password)
  THEN IF ~Truthy(hdr) \/ ~StrictEq(hdr, password) THEN "unauthorized" ELSE "ok"
  ELSE "misconfigured"

\* variant: only a missing header is rejected
GetRejected_MissingOnly(password, hdr) == ~Truthy(hdr)

\* the gate of GET getConfig=true
GetRejected(password, hdr) == ~Truthy(hdr) \/ ~StrictEq(hdr, password)

\* variant: && in place of ||
LinkRejected_And(password, hdr) == ~Truthy(password) /\ ~StrictEq(hdr, password)

\* the gate of the link handler
LinkRejected(password, hdr) == ~Truthy(password) \/ ~StrictEq(hdr, password)

\* await kvClient.put(...) followed by the success response, under the
\* handler's catch block
PutAndAnswer(client, bound, store, key, value, ttl, outcome, errMsg) ==
  LET p == KvPut(client, bound, store, key, value, ttl, outcome)
  IN [kv |-> p.store,
      response |-> IF p.threw THEN Response(500, ErrorBody(errMsg))
                   ELSE Response(200, SuccessBody),
      calls |-> p.calls,
      stored |-> p.stored]

\* variant: the links already stored are kept behind those of the body
SaveAppData_Merge(client, bound, store, body, outcome) ==
  LET old == IF store["app_data"] = None THEN <<>>
             ELSE JSONparse(store["app_data"][1]).links
  IN PutAndAnswer(client, bound, store, "app_data",
                  JSONstringify([body EXCEPT !.links = @ \o old]), None, outcome,
                  "Failed to save data")

\* the last step of the POST handler: the body is written whole
SaveAppData(client, bound, store, body, outcome) ==
  PutAndAnswer(client, bound, store, "app_data", JSONstringify(body), None, outcome,
               "Failed to save data")

\* variant: the whole body is stored, not its config
SaveConfig_Body(client, bound, store, key, body, outcome) ==
  PutAndAnswer(client, bound, store, key, JSONstringify(body), None, outcome,
               "Failed to save data")

\* kvClient.put(<key>, JSON.stringify(body.config)) of the three config saves:
\* the config is not looked into
SaveConfig(client, bound, store, key, body, outcome) ==
  PutAndAnswer(client, bound, store, key, JSONstringify(body.config), None, outcome,
               "Failed to save data")

StorageOnRequestPost(client, bound, store, password, clock, hdr, body, outcome) ==
  LET saveConfig == Prop(body, "saveConfig")
      failed == "Failed to save data"
      unauthorized == Answer(store, Response(401, ErrorBody("Unauthorized")))
      misconfigured ==
        Answer(store, Response(500, ErrorBody("Server misconfigured: PASSWORD not set")))
  IN IF IsMalformed(body) THEN Answer(store, Response(500, ErrorBody(failed)))
     ELSE IF Prop(body, "authOnly") = Some(TRUE) THEN
       IF AuthOnlyGate(password, hdr) = "misconfigured" THEN misconfigured
       ELSE IF AuthOnlyGate(password, hdr) = "unauthorized" THEN unauthorized
       ELSE PutAndAnswer(client, bound, store, "last_auth_time", toString(clock),
                         None, outcome, failed)
     ELSE IF saveConfig = Some("search") THEN
       IF SearchSaveRejected(password, hdr) THEN unauthorized
       ELSE SaveConfig(client, bound, store, "search_config", body, outcome)
     ELSE IF saveConfig = Some("favicon") THEN
       IF ~Truthy(Prop(body, "domain")) \/ ~Truthy(Prop(body, "icon"))
       THEN Answer(store, Response(400, ErrorBody("Domain and icon are required")))
       ELSE PutAndAnswer(client, bound, store, FaviconKey(body.domain), body.icon,
                         Some(FaviconTtl), outcome, failed)
     ELSE IF SaveGate(password, hdr) = "unauthorized" THEN unauthorized
     ELSE IF SaveGate(password, hdr) = "misconfigured" THEN misconfigured
     ELSE IF saveConfig = Some("ai") THEN
       SaveConfig(client, bound, store, "ai_config", body, outcome)
     ELSE IF saveConfig = Some("website") THEN
       SaveConfig(client, bound, store, "website_config", body, outcome)
     ELSE SaveAppData(client, bound, store, body, outcome)

\* variant: every read falls back to '{}'
OrElse_EmptyObject(val, fallback) ==
  IF val # None THEN val[1] ELSE JSONstringify(EmptyObject)

\* value || fallback for a string read from the store
OrElse(val, fallback) == IF val # None THEN val[1] ELSE fallback

EmptyAppData == [links |-> <<>>, categories |-> <<>>]

\* variant: a successful read does not renew last_auth_time
AuthenticatedRead_NoRefresh(client, bound, store, password, clock, hdr, outs) ==
  LET g2 == KvGet(client, bound, store, "website_config", outs[2])
      websiteConfig == IF g2.val # None THEN JSONparse(g2.val[1])
                       ELSE [passwordExpiryDays |-> DefaultExpiryDays]
      rawDays == Prop(websiteConfig, "passwordExpiryDays")
      passwordExpiryDays == IF rawDays # None /\ rawDays[1] # 0 THEN rawDays[1]
                            ELSE DefaultExpiryDays
      g3 == KvGet(client, bound, store, "last_auth_time", outs[3])
      expired == /\ g3.val # None
                 /\ clock - parseInt(g3.val[1]) > passwordExpiryDays * DayMs
      p == KvPut(client, bound, store, "last_auth_time", toString(clock), None, outs[4])
  IN IF GetRejected(password, hdr)
     THEN [verdict |-> "rejected", kv |-> store, calls |-> <<>>, stored |-> FALSE]
     ELSE IF passwordExpiryDays > 0 /\ expired
     THEN [verdict |-> "expired", kv |-> store, calls |-> g2.calls \o g3.calls,
           stored |-> FALSE]
     ELSE [verdict |-> "passed",
           kv |-> store,
           calls |-> g2.calls \o (IF passwordExpiryDays > 0 THEN g3.calls ELSE <<>>),
           stored |-> FALSE]

\* lines 217-252 (api) / 147-182 (binding): the branch getConfig === 'true'.
\* outs[2..4] are the outcomes of the reads of website_config and
\* last_auth_time and of the write of last_auth_time.
AuthenticatedRead(client, bound, store, password, clock, hdr, outs) ==
  LET g2 == KvGet(client, bound, store, "website_config", outs[2])
      websiteConfig == IF g2.val # None THEN JSONparse(g2.val[1])
                       ELSE [passwordExpiryDays |-> DefaultExpiryDays]
      rawDays == Prop(websiteConfig, "passwordExpiryDays")
      passwordExpiryDays == IF rawDays # None /\ rawDays[1] # 0 THEN rawDays[1]
                            ELSE DefaultExpiryDays
      g3 == KvGet(client, bound, store, "last_auth_time", outs[3])
      expired == /\ g3.val # None
                 /\ clock - parseInt(g3.val[1]) > passwordExpiryDays * DayMs
      p == KvPut(client, bound, store, "last_auth_time", toString(clock), None, outs[4])
  IN IF GetRejected(password, hdr)
     THEN [verdict |-> "rejected", kv |-> store, calls |-> <<>>, stored |-> FALSE]
     ELSE IF passwordExpiryDays > 0 /\ expired
     THEN [verdict |-> "expired", kv |-> store, calls |-> g2.calls \o g3.calls,
           stored |-> FALSE]
     ELSE [verdict |-> IF p.threw THEN "threw" ELSE "passed",
           kv |-> p.store,
           calls |-> g2.calls \o (IF passwordExpiryDays > 0 THEN g3.calls ELSE <<>>)
                     \o p.calls,
           stored |-> p.stored]

StorageOnRequestGet(client, bound, store, password, clock, hdr, query, outs) ==
  LET getConfig == Prop(query, "getConfig")
      config(key, fallback) ==
        LET g == KvGet(client, bound, store, key, outs[1])
        IN [kv |-> store, response |-> RawResponse(200, OrElse(g.val, fallback)),
            calls |-> g.calls, stored |-> FALSE]
      icon == KvGet(client, bound, store, FaviconKey(query.domain), outs[1])
      g1 == KvGet(client, bound, store, "app_data", outs[1])
      dataResponse == IF g1.val = None THEN Response(200, EmptyAppData)
                      ELSE RawResponse(200, g1.val[1])
      auth == AuthenticatedRead(client, bound, store, password, clock, hdr, outs)
  IN IF Prop(query, "checkAuth") = Some("true")
     THEN Answer(store, Response(200, [hasPassword |-> Truthy(password),
                                       requiresAuth |-> Truthy(password)]))
     ELSE IF getConfig = Some("ai") THEN config("ai_config", JSONstringify(EmptyObject))
     ELSE IF getConfig = Some("search")
     THEN config("search_config", JSONstringify(EmptyObject))
     ELSE IF getConfig = Some("website")
     THEN config("website_config",
                 JSONstringify([passwordExpiryDays |-> DefaultExpiryDays]))
     ELSE IF getConfig = Some("favicon") THEN
       IF ~Truthy(Prop(query, "domain"))
       THEN Answer(store, Response(400, ErrorBody("Domain parameter is required")))
       ELSE [kv |-> store,
             response |-> Response(200, [icon |-> icon.val, cached |-> icon.val # None]),
             calls |-> icon.calls, stored |-> FALSE]
     ELSE IF getConfig = Some("true") THEN
       [kv |-> auth.kv,
        response |-> CASE auth.verdict = "rejected" -> Response(401, ErrorBody(MsgWrongPassword))
                       [] auth.verdict = "expired" -> Response(401, ErrorBody(MsgPasswordExpired))
                       [] auth.verdict = "threw" -> Response(500, ErrorBody("Failed to fetch data"))
                       [] OTHER -> dataResponse,
        calls |-> g1.calls \o auth.calls,
        stored |-> auth.stored]
     ELSE [kv |-> store, response |-> dataResponse, calls |-> g1.calls, stored |-> FALSE]

----------------------------------------------------------------------------
(* Strings the category search looks into are sequences of characters; a   *)
(* character outside ASCII is written by its code point ("U6536").         *)

UpperCase == <<"A", "B", "C", "D", "E", "F", "G", "H", "I", "J", "K", "L", "M",
               "N", "O", "P", "Q", "R", "S", "T", "U", "V", "W", "X", "Y", "Z">>
LowerCase == <<"a", "b", "c", "d", "e", "f", "g", "h", "i", "j", "k", "l", "m",
               "n", "o", "p", "q", "r", "s", "t", "u", "v", "w", "x", "y", "z">>

\* String.prototype.toLowerCase
toLowerCase(str) ==
  [i \in 1..Len(str) |->
     IF \E j \in 1..26 : UpperCase[j] = str[i]
     THEN LowerCase[CHOOSE j \in 1..26 : UpperCase[j] = str[i]]
     ELSE str[i]]

\* String.prototype.includes
includes(str, k) ==
  \E i \in 1..(Len(str) - Len(k) + 1) : SubSeq(str, i, i + Len(k) - 1) = k

\* Array.prototype.find: the first element satisfying P, if any
find(arr, P(_)) ==
  LET I == {i \in 1..Len(arr) : P(arr[i])}
  IN IF I = {} THEN None ELSE Some(arr[CHOOSE i \in I : \A j \in I : i <= j])

keywords == << <<"U6536", "U96C6">>, <<"U672A", "U5206", "U7C7B">>,
               <<"i", "n", "b", "o", "x">>, <<"t", "e", "m", "p">>,
               <<"l", "a", "t", "e", "r">> >>

DefaultCategoryName == <<"U9ED8", "U8BA4">>

\* variant: the last category with the id, not the first
ExplicitCategory_Last(categories, categoryId) ==
  LET I == IF Truthy(categoryId)
           THEN {i \in 1..Len(categories) : categories[i].id = categoryId[1]}
           ELSE {}
      last == CHOOSE i \in I : \A j \in I : j <= i
  IN IF I # {}
     THEN [id |-> categories[last].id, name |-> categories[last].name]
     ELSE [id |-> "", name |-> <<>>]

\* step 3a of the link handler: the category the request names
ExplicitCategory(categories, categoryId) ==
  LET explicitCat == IF Truthy(categoryId)
                     THEN find(categories, LAMBDA c : c.id = categoryId[1])
                     ELSE None
  IN IF explicitCat # None
     THEN [id |-> explicitCat[1].id, name |-> explicitCat[1].name]
     ELSE [id |-> "", name |-> <<>>]

\* variant: without a keyword the link goes to 'common', stored or not
FallbackCategory_NoFirst(categories) ==
  LET match == find(categories,
                    LAMBDA c : \E i \in 1..Len(keywords) :
                                  includes(toLowerCase(c.name), keywords[i]))
      common == find(categories, LAMBDA c : c.id = "common")
  IN IF Len(categories) > 0 /\ match # None
     THEN [id |-> match[1].id, name |-> match[1].name]
     ELSE IF common # None THEN [id |-> "common", name |-> common[1].name]
     ELSE [id |-> "common", name |-> DefaultCategoryName]

\* variant: 'common' is looked for before the keywords
FallbackCategory_CommonFirst(categories) ==
  LET match == find(categories,
                    LAMBDA c : \E i \in 1..Len(keywords) :
                                  includes(toLowerCase(c.name), keywords[i]))
      common == find(categories, LAMBDA c : c.id = "common")
  IN IF Len(categories) > 0
     THEN IF common # None THEN [id |-> "common", name |-> common[1].name]
          ELSE IF match # None THEN [id |-> match[1].id, name |-> match[1].name]
          ELSE [id |-> categories[1].id, name |-> categories[1].name]
     ELSE [id |-> "common", name |-> DefaultCategoryName]

\* step 3b of the link handler: the category found without the request's help
FallbackCategory(categories) ==
  LET match == find(categories,
                    LAMBDA c : \E i \in 1..Len(keywords) :
                                  includes(toLowerCase(c.name), keywords[i]))
      common == find(categories, LAMBDA c : c.id = "common")
  IN IF Len(categories) > 0
     THEN IF match # None THEN [id |-> match[1].id, name |-> match[1].name]
          ELSE IF common # None THEN [id |-> "common", name |-> common[1].name]
          ELSE [id |-> categories[1].id, name |-> categories[1].name]
     ELSE [id |-> "common", name |-> DefaultCategoryName]

\* step 3 of the link handler
DetermineCategory(categories, categoryId) ==
  LET target == ExplicitCategory(categories, categoryId)
  IN IF target.id = "" THEN FallbackCategory(categories) ELSE target

\* variant: the id counts seconds
NewLink_Seconds(data, targetCatId, clock) ==
  [id |-> toString(clock \div 1000),
   title |-> data.title,
   url |-> data.url,
   description |-> IF Truthy(Prop(data, "description")) THEN data.description ELSE "",
   categoryId |-> targetCatId,
   createdAt |-> clock,
   pinned |-> FALSE]

\* step 4: the link object, as JSON.stringify writes it (icon: undefined is dropped)
NewLink(data, targetCatId, clock) ==
  [id |-> toString(clock),
   title |-> data.title,
   url |-> data.url,
   description |-> IF Truthy(Prop(data, "description")) THEN data.description ELSE "",
   categoryId |-> targetCatId,
   createdAt |-> clock,
   pinned |-> FALSE]

\* getKVValue of the third copy of the link handler
getKVValue(store, key, outcome) ==
  [val |-> IF outcome = "error" THEN None ELSE store[key],
   calls |-> <<GetCall(key, outcome)>>]

\* putKVValue of the third copy of the link handler: a failure is swallowed
putKVValue(store, key, value, outcome) ==
  [store |-> IF outcome = "ok" THEN [store EXCEPT ![key] = Some(value)] ELSE store,
   threw |-> FALSE,
   stored |-> outcome = "ok",
   calls |-> <<PutCall(key, value, None, outcome)>>]

\* kvClient.get of the first two copies of the link handler
LinkKV_get(store, key, outcome) ==
  LET status == RemoteGetStatus(store, key, outcome)
  IN [val |-> IF status = 404 \/ ~(status \in 200..299) THEN None ELSE store[key],
      calls |-> <<GetCall(key, outcome)>>]

\* kvClient.put of the first two copies of the link handler
LinkKV_put(store, key, value, outcome) ==
  [store |-> IF outcome = "ok" THEN [store EXCEPT ![key] = Some(value)] ELSE store,
   threw |-> outcome # "ok",
   stored |-> outcome = "ok",
   calls |-> <<PutCall(key, value, None, outcome)>>]

\* the first half of the link handler, up to the answer of the read of app_data
LinkOnRequestPostRead(client, store, password, hdr, data, outcome) ==
  LET g == IF client = "api" THEN LinkKV_get(store, "app_data", outcome)
           ELSE getKVValue(store, "app_data", outcome)
  IN IF LinkRejected(password, hdr)
     THEN [answered |-> TRUE, response |-> Response(401, ErrorBody("Unauthorized")),
           calls |-> <<>>]
     ELSE IF IsMalformed(data)
     THEN [answered |-> TRUE, response |-> Response(500, ErrorBody("Unexpected token")),
           calls |-> <<>>]
     ELSE IF ~Truthy(Prop(data, "title")) \/ ~Truthy(Prop(data, "url"))
     THEN [answered |-> TRUE, response |-> Response(400, ErrorBody("Missing title or url")),
           calls |-> <<>>]
     ELSE [answered |-> FALSE, currentDataStr |-> g.val, calls |-> g.calls]

\* variant: app_data is read again when the link is written
LinkOnRequestPostWrite_Reread(client, store, clock, data, currentDataStr, outcome) ==
  LET currentData == IF store["app_data"] # None THEN JSONparse(store["app_data"][1])
                     ELSE EmptyAppData
      target == DetermineCategory(currentData.categories, Prop(data, "categoryId"))
      newLink == NewLink(data, target.id, clock)
      newData == [currentData EXCEPT !.links = <<newLink>> \o @]
      p == IF client = "api"
           THEN LinkKV_put(store, "app_data", JSONstringify(newData), outcome)
           ELSE putKVValue(store, "app_data", JSONstringify(newData), outcome)
  IN [kv |-> p.store,
      response |-> IF p.threw THEN Response(500, ErrorBody("EdgeOne KV PUT error"))
                   ELSE Response(200, [success |-> TRUE, link |-> newLink,
                                       categoryName |-> target.name]),
      calls |-> p.calls,
      stored |-> p.stored,
      link |-> newLink,
      written |-> JSONstringify(newData)]

\* the second half of the link handler, from the answer of the read on
LinkOnRequestPostWrite(client, store, clock, data, currentDataStr, outcome) ==
  LET currentData == IF currentDataStr # None THEN JSONparse(currentDataStr[1])
                     ELSE EmptyAppData
      target == DetermineCategory(currentData.categories, Prop(data, "categoryId"))
      newLink == NewLink(data, target.id, clock)
      newData == [currentData EXCEPT !.links = <<newLink>> \o @]
      p == IF client = "api"
           THEN LinkKV_put(store, "app_data", JSONstringify(newData), outcome)
           ELSE putKVValue(store, "app_data", JSONstringify(newData), outcome)
  IN [kv |-> p.store,
      response |-> IF p.threw THEN Response(500, ErrorBody("EdgeOne KV PUT error"))
                   ELSE Response(200, [success |-> TRUE, link |-> newLink,
                                       categoryName |-> target.name]),
      calls |-> p.calls,
      stored |-> p.stored,
      link |-> newLink,
      written |-> JSONstringify(newData)]

----------------------------------------------------------------------------
(* Inputs the requests are drawn from *)

Passwords == {None, Some(""), Some("pw")}
Headers == {None, Some("pw"), Some("bad")}

CatWork == [id |-> "work", name |-> <<"W", "o", "r", "k">>]
CatInbox == [id |-> "c1", name |-> <<"M", "y", " ", "I", "N", "B", "O", "X">>]
CatCommon == [id |-> "common", name |-> <<"C", "o", "m", "m", "o", "n">>]

StoredLink(n, cat) ==
  [id |-> toString(n), title |-> "old", url |-> "u0", description |-> "",
   categoryId |-> cat, createdAt |-> n, pinned |-> FALSE]

SaveDocs ==
  { [links |-> <<StoredLink(1, "work")>>, categories |-> <<CatWork, CatInbox>>],
    [links |-> <<StoredLink(2, "common"), StoredLink(1, "common")>>,
     categories |-> <<CatCommon>>] }

AiConfigs == {[model |-> "m1"]}
SearchConfigs == {[engine |-> "e1"]}
WebsiteConfigs == {[passwordExpiryDays |-> 1], [title |-> "nav"]}

StorageBodies ==
  {Malformed, [authOnly |-> TRUE]}
  \cup {[saveConfig |-> "search", config |-> c] : c \in SearchConfigs}
  \cup {[saveConfig |-> "favicon", domain |-> d, icon |-> "icon1"] : d \in Domains}
  \cup {[saveConfig |-> "favicon", domain |-> d] : d \in Domains}
  \cup {[saveConfig |-> "ai", config |-> c] : c \in AiConfigs}
  \cup {[saveConfig |-> "website", config |-> c] : c \in WebsiteConfigs}
  \cup SaveDocs

\* the search parameters of a GET: a parameter that is absent is no field
NoParams == [k \in {} |-> ""]

Queries ==
  {NoParams, [checkAuth |-> "true"], [getConfig |-> "favicon"]}
  \cup {[getConfig |-> g] : g \in {"ai", "search", "website", "true", "other"}}
  \cup {[getConfig |-> "favicon", domain |-> d] : d \in Domains}

LinkBodies ==
  {Malformed, [url |-> "u1"], [title |-> "t1", url |-> "u1"],
   [title |-> "t2", url |-> "u1", categoryId |-> "work"]}

Clients == {"api", "binding"}

Request(handler, client, bound, hdr, body) ==
  [handler |-> handler, client |-> client, bound |-> bound, header |-> hdr,
   body |-> body]

\* env.CLOUDNAV_KV is a deployment setting of the handlers that use the binding
RequestsOf(handler, bodies) ==
  {Request(handler, c, b, h, body) :
     c \in Clients, b \in BOOLEAN, h \in Headers, body \in bodies}
  \ {Request(handler, "api", FALSE, h, body) : h \in Headers, body \in bodies}

StorageRequests ==
  RequestsOf("storage.post", StorageBodies) \cup RequestsOf("storage.get", Queries)

\* saves of a whole document by an authorized client
AuthorizedSaves == {Request("storage.post", "api", TRUE, Some("pw"), d) : d \in SaveDocs}

\* the link handler reads no binding setting: an unbound env.CLOUDNAV_KV is one
\* of the failures of its calls
LinkRequestsOf(bodies) ==
  {Request("link.post", c, TRUE, h, body) :
     c \in Clients, h \in Headers, body \in bodies}

LinkRequests == LinkRequestsOf(LinkBodies)

\* authorized link insertions
RaceRequests ==
  { Request("link.post", "api", TRUE, Some("pw"), [title |-> "t1", url |-> "u1"]),
    Request("link.post", "binding", TRUE, Some("pw"), [title |-> "t2", url |-> "u1"]) }

\* the requests of the specification of every handler
AllRequests ==
  StorageRequests \cup LinkRequestsOf({Malformed, [title |-> "t1", url |-> "u1"]})

Slots == 1..2

\* the categories the category search is tried on
CategoryPool ==
  { CatWork, CatInbox, CatCommon,
    [id |-> "work", name |-> <<"J", "o", "b", "s">>],
    [id |-> "c2", name |-> <<"T", "e", "m", "p", "l", "a", "t", "e">>],
    [id |-> "c3", name |-> <<"L", "a", "t", "e">>],
    [id |-> "c4", name |-> <<"U6536", "U96C6", "U5939">>],
    [id |-> "c5", name |-> <<"U672A", "U5206", "U7C7B">>],
    [id |-> "c6", name |-> <<"W", "a", "t", "c", "h", " ", "L", "A", "T", "E", "R">>] }

RECURSIVE SeqsUpTo(_, _)
SeqsUpTo(S, n) ==
  IF n = 0 THEN {<<>>}
  ELSE LET shorter == SeqsUpTo(S, n - 1)
       IN shorter \cup {Append(q, x) : q \in {r \in shorter : Len(r) = n - 1}, x \in S}

CategoryBodies ==
  {[title |-> "t1", url |-> "u1"]}
  \cup {[title |-> "t1", url |-> "u1", categoryId |-> c] :
          c \in {"", "work", "c1", "c3", "common", "zzz"}}

CategoryRequests ==
  {Request("link.post", c, TRUE, Some("pw"), body) :
     c \in Clients, body \in CategoryBodies}

----------------------------------------------------------------------------
(* Initial state: an empty store, no request in flight *)

Idle == [pc |-> "idle"]
NoRequest == [handler |-> "none"]
NoResponse == RawResponse(0, JSONstringify(EmptyObject))

Init ==
  /\ kv = [k \in Keys |-> None]
  /\ PASSWORD \in Passwords
  /\ now = 0
  /\ pending = [s \in Slots |-> Idle]
  /\ request = NoRequest
  /\ response = NoResponse
  /\ calls = <<>>

----------------------------------------------------------------------------
(* Actions.  A request arrives (Receive), its handler runs, the response   *)
(* leaves (Reply).  The handlers run one at a time except where they       *)
(* await the store: a link insertion that has read app_data is suspended   *)
(* in `pending` while other requests are handled.                          *)

Receive(requests) ==
  /\ request = NoRequest
  /\ \E r \in requests : request' = r
  /\ UNCHANGED <<kv, PASSWORD, now, pending, response, calls>>

Handling(handler, client) ==
  /\ request.handler = handler
  /\ request.client = client
  /\ response = NoResponse

\* the links app_data holds
StoredLinks(store) ==
  IF store["app_data"] = None THEN <<>> ELSE JSONparse(store["app_data"][1]).links

\* a write of app_data by `writer` is noted by the insertions that have read
\* app_data and not yet written it
NoteWrite(pend, writer, wrote) ==
  [s \in Slots |->
     IF wrote /\ s # writer /\ pend[s].pc = "read"
     THEN [pend[s] EXCEPT !.lost = @ \cup {writer}]
     ELSE pend[s]]

WroteAppData(r) ==
  r.stored /\ \E i \in 1..Len(r.calls) : r.calls[i].op = "put" /\ r.calls[i].key = "app_data"

StoragePost(client) ==
  /\ Handling("storage.post", client)
  /\ \E outcome \in Outcomes :
       LET r == StorageOnRequestPost(client, request.bound, kv, PASSWORD, now,
                                     request.header, request.body, outcome)
       IN /\ kv' = r.kv
          /\ response' = r.response
          /\ calls' = r.calls
          /\ pending' = NoteWrite(pending, 0, WroteAppData(r))
  /\ UNCHANGED <<PASSWORD, now, request>>

\* the outcomes of the calls a GET may make: only getConfig=true makes more
\* than one
OutcomeVectors(query) ==
  IF Prop(query, "checkAuth") # Some("true") /\ Prop(query, "getConfig") = Some("true")
  THEN [1..4 -> Outcomes]
  ELSE {[i \in 1..4 |-> IF i = 1 THEN o ELSE "ok"] : o \in Outcomes}

StorageGet(client) ==
  /\ Handling("storage.get", client)
  /\ \E outs \in OutcomeVectors(request.body) :
       LET r == StorageOnRequestGet(client, request.bound, kv, PASSWORD, now,
                                    request.header, request.body, outs)
       IN /\ kv' = r.kv
          /\ response' = r.response
          /\ calls' = r.calls
  /\ UNCHANGED <<PASSWORD, now, request, pending>>

ApiStoragePost == StoragePost("api")
ApiStorageGet == StorageGet("api")
BindingStoragePost == StoragePost("binding")
BindingStorageGet == StorageGet("binding")

\* a link insertion is answered at once, or its read of app_data is served
\* and it is suspended until LinkFinish
LinkBegin(s, maxLinks) ==
  /\ request.handler = "link.post"
  /\ response = NoResponse
  /\ pending[s].pc = "idle"
  /\ \A t \in Slots : t < s => pending[t].pc # "idle"
  /\ Len(StoredLinks(kv)) < maxLinks
  /\ \E outcome \in Outcomes :
       LET r == LinkOnRequestPostRead(request.client, kv, PASSWORD,
                                      request.header, request.body, outcome)
       IN IF r.answered
          THEN /\ response' = r.response
               /\ calls' = r.calls
               /\ UNCHANGED <<request, pending>>
          ELSE /\ pending' = [pending EXCEPT ![s] =
                    [pc |-> "read", request |-> request,
                     currentDataStr |-> r.currentDataStr, calls |-> r.calls,
                     lost |-> {}]]
               /\ request' = NoRequest
               /\ UNCHANGED <<response, calls>>
  /\ UNCHANGED <<kv, PASSWORD, now>>

\* the insertion goes on after its read: it builds the link, writes app_data
\* and answers
LinkFinish(s) ==
  /\ request = NoRequest
  /\ pending[s].pc = "read"
  /\ \E outcome \in Outcomes :
       LET p == pending[s]
           r == LinkOnRequestPostWrite(p.request.client, kv, now,
                                       p.request.body, p.currentDataStr, outcome)
       IN /\ kv' = r.kv
          /\ request' = p.request
          /\ response' = r.response
          /\ calls' = p.calls \o r.calls
          /\ pending' = [NoteWrite(pending, s, r.stored) EXCEPT ![s] =
               [pc |-> "done", link |-> r.link, written |-> r.written,
                stored |-> r.stored, currentDataStr |-> p.currentDataStr,
                lost |-> p.lost]]
  /\ UNCHANGED <<PASSWORD, now>>

\* the response leaves
Reply ==
  /\ response # NoResponse
  /\ request' = NoRequest
  /\ response' = NoResponse
  /\ calls' = <<>>
  /\ pending' = [s \in Slots |-> IF pending[s].pc = "done" THEN Idle ELSE pending[s]]
  /\ UNCHANGED <<kv, PASSWORD, now>>

\* time passes, by a millisecond
TickMs ==
  /\ request = NoRequest
  /\ now % DayMs < MaxMs
  /\ now' = now + 1
  /\ UNCHANGED <<kv, PASSWORD, pending, request, response, calls>>

\* time passes, by a day
TickDay ==
  /\ request = NoRequest
  /\ (now \div DayMs) % DefaultExpiryDays < MaxDays
  /\ now' = now + DayMs
  /\ UNCHANGED <<kv, PASSWORD, pending, request, response, calls>>

\* time passes, by the default expiry period
TickWeek ==
  /\ request = NoRequest
  /\ now \div (DefaultExpiryDays * DayMs) < MaxWeeks
  /\ now' = now + DefaultExpiryDays * DayMs
  /\ UNCHANGED <<kv, PASSWORD, pending, request, response, calls>>

----------------------------------------------------------------------------
(* Specifications *)

\* every handler, one request at a time but for one suspended link insertion
Next ==
  \/ Receive(AllRequests)
  \/ ApiStoragePost
  \/ ApiStorageGet
  \/ BindingStoragePost
  \/ BindingStorageGet
  \/ LinkBegin(1, MaxLinks)
  \/ LinkFinish(1)
  \/ Reply

Spec == Init /\ [][Next]_vars

\* the storage handlers alone
NextStorage ==
  \/ Receive(StorageRequests)
  \/ ApiStoragePost
  \/ ApiStorageGet
  \/ BindingStoragePost
  \/ BindingStorageGet
  \/ Reply
  \/ TickMs
  \/ TickDay

SpecStorage == Init /\ [][NextStorage]_vars

\* link insertions, one at a time, and whole-document saves
NextLink ==
  \/ Receive(AuthorizedSaves \cup LinkRequests)
  \/ ApiStoragePost
  \/ LinkBegin(1, MaxLinks)
  \/ LinkFinish(1)
  \/ Reply

SpecLink == Init /\ [][NextLink]_vars

\* authorized link insertions on two connections and whole-document saves
NextRace ==
  \/ Receive(AuthorizedSaves \cup RaceRequests)
  \/ ApiStoragePost
  \/ \E s \in Slots : LinkBegin(s, MaxLinks)
  \/ \E s \in Slots : LinkFinish(s)
  \/ Reply

SpecRace == Init /\ [][NextRace]_vars

\* one link insertion into a store that holds a document with any list of
\* up to MaxCats categories
\* the saves and the reads of the three config blobs
ConfigRequests ==
  RequestsOf("storage.post",
             {[saveConfig |-> "ai", config |-> c] :
                c \in AiConfigs \cup {[apiKey |-> "", models |-> <<>>]}}
             \cup {[saveConfig |-> "search", config |-> c] : c \in SearchConfigs}
             \cup {[saveConfig |-> "website", config |-> c] : c \in WebsiteConfigs})
  \cup RequestsOf("storage.get", {[getConfig |-> g] : g \in {"ai", "search", "website"}})

NextConfig ==
  \/ Receive(ConfigRequests)
  \/ ApiStoragePost
  \/ ApiStorageGet
  \/ BindingStoragePost
  \/ BindingStorageGet
  \/ Reply

SpecConfig == Init /\ [][NextConfig]_vars

\* website configs the expiry period is taken from
ExpiryConfigs == WebsiteConfigs \cup {[passwordExpiryDays |-> 0], [passwordExpiryDays |-> -1]}

\* the requests the password expiry depends on
ExpiryRequests ==
  {Request(h, c, TRUE, hdr, b) :
     c \in Clients, hdr \in {Some("pw"), Some("bad")},
     h \in {"storage.post"},
     b \in {[authOnly |-> TRUE]}
            \cup {[saveConfig |-> "website", config |-> w] : w \in ExpiryConfigs}}
  \cup {Request("storage.get", c, TRUE, hdr, [getConfig |-> "true"]) :
          c \in Clients, hdr \in {Some("pw"), Some("bad")}}

\* the storage handlers under a clock that passes the expiry periods
NextExpiry ==
  \/ Receive(ExpiryRequests)
  \/ ApiStoragePost
  \/ ApiStorageGet
  \/ BindingStoragePost
  \/ BindingStorageGet
  \/ Reply
  \/ TickMs
  \/ TickDay
  \/ TickWeek

SpecExpiry == Init /\ [][NextExpiry]_vars

\* link insertions one after the other, under a passing clock
NextIds ==
  \/ Receive(RaceRequests)
  \/ LinkBegin(1, MaxLinks)
  \/ LinkFinish(1)
  \/ Reply
  \/ TickMs
  \/ TickDay

SpecIds == Init /\ [][NextIds]_vars

InitCategory ==
  /\ \E cats \in SeqsUpTo(CategoryPool, MaxCats) :
       kv = [k \in Keys |->
               IF k = "app_data"
               THEN Some(JSONstringify([links |-> <<>>, categories |-> cats]))
               ELSE None]
  /\ PASSWORD = Some("pw")
  /\ now = 0
  /\ pending = [s \in Slots |-> Idle]
  /\ request = NoRequest
  /\ response = NoResponse
  /\ calls = <<>>

NextCategory ==
  \/ Receive(CategoryRequests)
  \/ LinkBegin(1, 1)
  \/ LinkFinish(1)
  \/ Reply

SpecCategory == InitCategory /\ [][NextCategory]_vars

----------------------------------------------------------------------------
(* The WebDAV handler: src/webdav.ts.  URLs and file names are sequences   *)
(* of characters; the outbound fetch is recorded in `calls` together with  *)
(* what the remote server answered to it.                                  *)

Whitespace == {" "}

\* String.prototype.trim
trim(str) ==
  LET I == {i \in 1..Len(str) : str[i] \notin Whitespace}
  IN IF I = {} THEN <<>>
     ELSE SubSeq(str, CHOOSE i \in I : \A j \in I : i <= j,
                      CHOOSE i \in I : \A j \in I : j <= i)

\* String.prototype.endsWith
endsWith(str, suffix) ==
  /\ Len(str) >= Len(suffix)
  /\ SubSeq(str, Len(str) - Len(suffix) + 1, Len(str)) = suffix

\* truthiness of an optional string held as a sequence of characters
NonEmpty(o) == o # None /\ Len(o[1]) > 0

DefaultFilename == <<"c", "l", "o", "u", "d", "n", "a", "v", "_", "b", "a", "c", "k", "u", "p", ".", "j", "s", "o", "n">>

\* btoa of `${username}:${password}`
btoa(str) == [base64 |-> str]

\* variant: the slash is appended whatever the URL ends in
BaseUrl_AlwaysSlash(url) == trim(url) \o <<"/">>

\* lines 13-14: the base URL
BaseUrl(url) == IF endsWith(trim(url), <<"/">>) THEN trim(url) ELSE trim(url) \o <<"/">>

\* variant: only 200 is a success
WebdavSuccess_OkOnly(status) == status = 200

\* line 64: response.ok || response.status === 207
WebdavSuccess(status) == status \in 200..299 \/ status = 207

Fetch(url, method, headers, body, answer) ==
  [op |-> "fetch", url |-> url, method |-> method, headers |-> headers,
   body |-> body, answer |-> answer]

\* onRequestPost of src/webdav.ts; `answer` is what the remote server does
WebdavOnRequestPost(body, answer) ==
  LET config == Prop(body, "config")
      operation == Prop(body, "operation")
      filename == Prop(body, "filename")
      none(resp) == [response |-> resp, calls |-> <<>>]
      baseUrl == BaseUrl(config[1].url)
      finalFilename == IF NonEmpty(filename) THEN filename[1] ELSE DefaultFilename
      fileUrl == baseUrl \o finalFilename
      authHeader == [scheme |-> "Basic",
                     credentials |-> btoa(config[1].username \o ":" \o config[1].password)]
      common == ("Authorization" :> authHeader) @@ ("User-Agent" :> "CloudNav/1.0")
      call == CASE operation = Some("check") ->
                     Fetch(baseUrl, "PROPFIND", common @@ ("Depth" :> "0"), None, answer)
                [] operation = Some("upload") ->
                     Fetch(fileUrl, "PUT",
                           common @@ ("Content-Type" :> "application/json"),
                           IF "payload" \in DOMAIN body
                           THEN Some(JSONstringify(body.payload)) ELSE None,
                           answer)
                [] OTHER -> Fetch(fileUrl, "GET", common, None, answer)
      status == answer.status
      resp == IF answer.kind = "throw" THEN Response(500, ErrorBody("fetch failed"))
              ELSE IF operation = Some("download")
              THEN IF ~(status \in 200..299)
                   THEN IF status = 404
                        THEN Response(404, ErrorBody("Backup file not found"))
                        ELSE Response(status, ErrorBody("WebDAV Error: " \o ToString(status)))
                   ELSE IF answer.body = None
                   THEN Response(500, ErrorBody("Unexpected token"))
                   ELSE Response(200, JSONparse(answer.body[1]))
              ELSE Response(200, [success |-> WebdavSuccess(status), status |-> status])
  IN IF IsMalformed(body) THEN none(Response(500, ErrorBody("Unexpected token")))
     ELSE IF \/ config = None
             \/ ~NonEmpty(Prop(config[1], "url"))
             \/ ~Truthy(Prop(config[1], "username"))
             \/ ~Truthy(Prop(config[1], "password"))
     THEN none(Response(400, ErrorBody("Missing configuration")))
     ELSE IF operation \notin {Some("check"), Some("upload"), Some("download")}
     THEN none(Response(400, ErrorBody("Invalid operation")))
     ELSE [response |-> resp, calls |-> <<call>>]

(* Inputs of the WebDAV handler *)

WebdavUrls ==
  { <<"h", ":", "/", "d">>, <<"h", ":", "/", "d", "/">>, <<" ", "h", ":", "/", "d", " ">>, <<" ">>, <<"h", ":", "/", " ", "d", "/", " ">>, <<>> }

WebdavConfigs ==
  {[url |-> u, username |-> n, password |-> "p"] : u \in WebdavUrls, n \in {"u", ""}}
  \cup {[url |-> <<"h", ":", "/", "d">>, username |-> "u"], [username |-> "u", password |-> "p"]}

WebdavFilenames == {None, Some(<<>>), Some(<<"b", ".", "j">>)}

\* rec with the property k when opt holds a value
WithOpt(rec, k, opt) == IF opt = None THEN rec ELSE rec @@ (k :> opt[1])

WebdavBodies ==
  {Malformed}
  \cup { WithOpt(WithOpt(WithOpt(WithOpt(EmptyObject, "operation", o), "config", c),
                         "filename", f), "payload", p) :
           o \in {None, Some("check"), Some("upload"), Some("download"), Some("delete")},
           c \in {None} \cup {Some(x) : x \in WebdavConfigs},
           f \in WebdavFilenames,
           p \in {None, Some(EmptyAppData)} }

WebdavRequests == {Request("webdav.post", "none", TRUE, None, b) : b \in WebdavBodies}

\* what the remote server does with the request: a status with a body that is
\* a JSON text or is not, or no answer at all
RemoteAnswers ==
  {[kind |-> "status", status |-> st, body |-> b] :
     st \in {200, 201, 207, 401, 404, 500},
     b \in {None} \cup {Some(JSONstringify(d)) : d \in SaveDocs}}
  \cup {[kind |-> "throw"]}

WebdavPost ==
  /\ Handling("webdav.post", "none")
  /\ \E answer \in RemoteAnswers :
       LET r == WebdavOnRequestPost(request.body, answer)
       IN /\ response' = r.response
          /\ calls' = r.calls
  /\ UNCHANGED <<kv, PASSWORD, now, request, pending>>

NextWebdav ==
  \/ Receive(WebdavRequests)
  \/ WebdavPost
  \/ Reply

SpecWebdav == Init /\ [][NextWebdav]_vars

----------------------------------------------------------------------------
(* Properties *)

Answered == response # NoResponse

\* the request in `request` is authorized by a configured password
Authorized == Truthy(PASSWORD) /\ StrictEq(request.header, PASSWORD)

\* the handler's client reaches the store
Reaches == request.client = "api" \/ request.bound

FaviconKeys == {FaviconKey(d) : d \in Domains}

\* a storage POST body that is neither authOnly nor one of the four saveConfig
IsAppDataBody(body) ==
  /\ ~IsMalformed(body)
  /\ Prop(body, "authOnly") # Some(TRUE)
  /\ Prop(body, "saveConfig") \notin
       {Some("search"), Some("favicon"), Some("ai"), Some("website")}

\* a storage POST body that saves app data, the AI config or the website config
IsGatedSave(body) ==
  /\ ~IsMalformed(body)
  /\ Prop(body, "authOnly") # Some(TRUE)
  /\ Prop(body, "saveConfig") \notin {Some("search"), Some("favicon")}

IsSearchSave(body) ==
  /\ ~IsMalformed(body)
  /\ Prop(body, "authOnly") # Some(TRUE)
  /\ Prop(body, "saveConfig") = Some("search")

PlainGet == request.handler = "storage.get" /\ Answered /\ request.body = NoParams

Unauthorized401 == Response(401, ErrorBody("Unauthorized"))

\* C1 as stated: the store changes only in answer to a request whose
\* x-auth-password header equals PASSWORD.
C1_OnlyPasswordWrites ==
  [][kv' # kv => StrictEq(request'.header, PASSWORD)]_vars

\* who may write key k
MayWrite(k, req, password) ==
  \/ Truthy(password) /\ StrictEq(req.header, password)
  \/ k \in FaviconKeys
  \/ k = "search_config" /\ ~Truthy(password)

\* C1, amended: app_data, ai_config, website_config and last_auth_time are
\* written only by a request whose header equals a configured, non-empty
\* PASSWORD; search_config is written by any request as well when PASSWORD is
\* unset or empty; favicon:<domain> is written by any request.  A key changes
\* only by a write its handler issued.
C1_WritesAreGated ==
  [][/\ \A k \in Keys :
          kv'[k] # kv[k] =>
            \E i \in 1..Len(calls') : calls'[i].op = "put" /\ calls'[i].key = k
     /\ calls' # calls =>
          \A i \in 1..Len(calls') :
            calls'[i].op = "put" => MayWrite(calls'[i].key, request', PASSWORD)]_vars

\* C1 witness: the store has served the write of app_data by a request whose
\* header equals PASSWORD
C1_Witness ==
  /\ Answered
  /\ request.handler = "storage.post"
  /\ Authorized
  /\ IsAppDataBody(request.body)
  /\ Len(calls) = 1
  /\ calls[1].op = "put"
  /\ calls[1].served
  /\ kv["app_data"] = Some(calls[1].value)

\* C2 as stated: a storage GET whose header is missing or differs from
\* PASSWORD is never answered with the stored app_data, whatever its query.
C2_ReadsAreGated ==
  (/\ request.handler = "storage.get"
   /\ Answered
   /\ ~StrictEq(request.header, PASSWORD)
   /\ kv["app_data"] # None)
  => response.body # kv["app_data"][1]

\* C2, amended: only the GET with getConfig=true (and no checkAuth=true) is
\* gated: with a header that is missing or differs from PASSWORD it is answered
\* 401 with an error body and without a write; a GET with no parameter is
\* answered with the stored app_data whatever its header.
C2_GetConfigTrueIsGated ==
  /\ (/\ request.handler = "storage.get"
      /\ Answered
      /\ Prop(request.body, "checkAuth") # Some("true")
      /\ Prop(request.body, "getConfig") = Some("true")
      /\ ~StrictEq(request.header, PASSWORD))
     => /\ response = Response(401, ErrorBody(MsgWrongPassword))
        /\ kv["app_data"] # None => response.body # kv["app_data"][1]
        /\ \A i \in 1..Len(calls) : calls[i].op = "get"
  /\ (PlainGet /\ Len(calls) = 1 /\ calls[1].served /\ kv["app_data"] # None)
     => response = RawResponse(200, kv["app_data"][1])

\* C2 witness: a GET with getConfig=true and a wrong password, on a store that
\* holds app_data, has been answered
C2_Witness ==
  /\ request.handler = "storage.get"
  /\ Answered
  /\ Prop(request.body, "getConfig") = Some("true")
  /\ request.header = Some("bad")
  /\ PASSWORD = Some("pw")
  /\ kv["app_data"] # None
  /\ response.status = 401

\* C3: an authorized storage POST whose body b is neither authOnly nor a
\* saveConfig of search, favicon, ai or website issues one call, the write of
\* JSON.stringify(b) to app_data; once the store has served it app_data is
\* exactly that text, whatever it was before; and a GET without parameters
\* whose read is served is answered with exactly the text app_data holds.
C3_SavedWhole ==
  /\ (/\ request.handler = "storage.post"
      /\ Answered
      /\ IsAppDataBody(request.body)
      /\ Authorized
      /\ Reaches)
     => /\ Len(calls) = 1
        /\ calls[1].op = "put"
        /\ calls[1].key = "app_data"
        /\ calls[1].value = JSONstringify(request.body)
        /\ calls[1].served =>
             /\ kv["app_data"] = Some(JSONstringify(request.body))
             /\ response = Response(200, SuccessBody)
  /\ (PlainGet /\ Len(calls) = 1 /\ calls[1].served /\ kv["app_data"] # None)
     => /\ response.status = 200
        /\ response.body = kv["app_data"][1]
        /\ JSONparse(response.body) \in SaveDocs

\* C3 witness: a GET without parameters returns a document of two links that a
\* save has stored
C3_Witness ==
  /\ PlainGet
  /\ response.status = 200
  /\ kv["app_data"] # None
  /\ response.body = kv["app_data"][1]
  /\ Len(JSONparse(response.body).links) = 2

\* the document a suspended or finished insertion has read
ReadData(p) ==
  IF p.currentDataStr # None THEN JSONparse(p.currentDataStr[1]) ELSE EmptyAppData

StoredCategories(store) ==
  IF store["app_data"] = None THEN <<>> ELSE JSONparse(store["app_data"][1]).categories

\* C4 as stated, for an insertion no other write interleaves with: answered
\* success, the links of app_data are the new link followed by the links
\* stored before, and the categories are those stored before, whatever the
\* outcome of the read.
C4_InsertionKeepsStoredData ==
  [][(/\ pending[1].pc = "read"
      /\ pending'[1].pc = "done"
      /\ pending[1].lost = {}
      /\ response'.status = 200)
     => /\ StoredLinks(kv') = <<pending'[1].link>> \o StoredLinks(kv)
        /\ StoredCategories(kv') = StoredCategories(kv)]_vars

\* C5: an insertion that read app_data before another authorized request
\* wrote it is not told of the conflict: once its own write is served it is
\* answered success and app_data is its link in front of the links it read,
\* so that the write that came in between is gone; and every request whose
\* write of app_data the store served was answered success.
C5_LaterWriteWins ==
  /\ \A s \in Slots :
       (pending[s].pc = "done" /\ pending[s].stored /\ pending[s].lost # {})
       => /\ response.status = 200
          /\ JSONparse(response.body).success
          /\ kv["app_data"] =
               Some(JSONstringify([ReadData(pending[s]) EXCEPT
                                     !.links = <<pending[s].link>> \o @]))
          /\ Len(StoredLinks(kv)) = Len(ReadData(pending[s]).links) + 1
  /\ (Answered /\ \E i \in 1..Len(calls) :
                    calls[i].op = "put" /\ calls[i].key = "app_data" /\ calls[i].served)
     => response.status = 200

\* C5 witness: two insertions read app_data, then both wrote it
C5_Witness ==
  \E s \in Slots :
    /\ pending[s].pc = "done"
    /\ pending[s].stored
    /\ pending[s].lost \cap Slots # {}
    /\ response.status = 200

\* the names of CategoryPool that hold a keyword, by inspection
KeywordNames ==
  { <<"M", "y", " ", "I", "N", "B", "O", "X">>,
    <<"T", "e", "m", "p", "l", "a", "t", "e">>,
    <<"U6536", "U96C6", "U5939">>,
    <<"U672A", "U5206", "U7C7B">>,
    <<"W", "a", "t", "c", "h", " ", "L", "A", "T", "E", "R">> }

Smallest(I) == CHOOSE i \in I : \A j \in I : i <= j

\* a link insertion has been answered success
Inserted == pending[1].pc = "done" /\ response.status = 200

\* the category list the insertion searched, what it was asked and what it chose
SearchedCategories == ReadData(pending[1]).categories
AskedCategoryId == Prop(request.body, "categoryId")
AskedMatches ==
  {i \in 1..Len(SearchedCategories) :
     AskedCategoryId # None /\ AskedCategoryId[1] # ""
       /\ SearchedCategories[i].id = AskedCategoryId[1]}
Chosen ==
  [id |-> JSONparse(response.body).link.categoryId,
   name |-> JSONparse(response.body).categoryName]

\* C6: when the request's categoryId is the id of a category of the app_data
\* document the insertion read, the new link's categoryId is that id and the
\* categoryName answered is the name of that category (the first one of that
\* id), whatever other categories the list holds.
C6_ExplicitCategoryWins ==
  (Inserted /\ AskedMatches # {})
  => /\ Chosen.id = AskedCategoryId[1]
     /\ Chosen.name = SearchedCategories[Smallest(AskedMatches)].name
     /\ pending[1].link.categoryId = AskedCategoryId[1]
     /\ pending[1].stored => StoredLinks(kv)[1].categoryId = AskedCategoryId[1]

\* C6 witness: the category asked for stands behind a category with a keyword
C6_Witness ==
  /\ Inserted
  /\ AskedMatches = {2}
  /\ SearchedCategories[1].name \in KeywordNames
  /\ pending[1].stored

\* C7: when the request names no category, or one the list does not hold,
\* the category is the first of the list whose name holds a keyword, else the
\* one of id 'common', else the first of the list, and 'common' named by the
\* default name when the list is empty.
C7_FallbackPriority ==
  (Inserted /\ AskedMatches = {})
  => LET cats == SearchedCategories
         K == {i \in 1..Len(cats) : cats[i].name \in KeywordNames}
         C == {i \in 1..Len(cats) : cats[i].id = "common"}
     IN /\ K # {} => Chosen = [id |-> cats[Smallest(K)].id, name |-> cats[Smallest(K)].name]
        /\ (K = {} /\ C # {}) =>
             Chosen = [id |-> "common", name |-> cats[Smallest(C)].name]
        /\ (K = {} /\ C = {} /\ Len(cats) > 0) =>
             Chosen = [id |-> cats[1].id, name |-> cats[1].name]
        /\ Len(cats) = 0 => Chosen = [id |-> "common", name |-> DefaultCategoryName]
        /\ pending[1].link.categoryId = Chosen.id

\* C7 witness: a category with a keyword stands behind 'common' and is chosen
C7_Witness ==
  /\ Inserted
  /\ AskedMatches = {}
  /\ Len(SearchedCategories) = 2
  /\ SearchedCategories[1].id = "common"
  /\ SearchedCategories[2].name \in KeywordNames
  /\ Chosen.id = SearchedCategories[2].id

\* C8: a link insertion whose header differs from PASSWORD, or any insertion
\* when PASSWORD is unset or empty, is answered 401 'Unauthorized' and has
\* made no call to the store, whatever its body.
C8_LinkAuthFirst ==
  (/\ request.handler = "link.post"
   /\ Answered
   /\ (~Truthy(PASSWORD) \/ ~StrictEq(request.header, PASSWORD)))
  => /\ response = Unauthorized401
     /\ calls = <<>>
     /\ \A s \in Slots : pending[s].pc # "done"

\* C8 witness: a malformed body with a wrong password has been answered
C8_Witness ==
  /\ request.handler = "link.post"
  /\ Answered
  /\ IsMalformed(request.body)
  /\ request.header = Some("bad")
  /\ PASSWORD = Some("pw")
  /\ response.status = 401

\* C9: a storage POST that saves app data, the AI config or the website
\* config is answered 500 'Server misconfigured: PASSWORD not set' when
\* PASSWORD is unset, 401 'Unauthorized' when PASSWORD is set and the header is
\* missing or different, in both cases without a call to the store; it writes
\* only when PASSWORD is set and the header equals it.
C9_SaveNeedsPassword ==
  (/\ request.handler = "storage.post"
   /\ Answered
   /\ IsGatedSave(request.body))
  => /\ ~Truthy(PASSWORD) =>
          /\ response = Response(500, ErrorBody("Server misconfigured: PASSWORD not set"))
          /\ calls = <<>>
     /\ (Truthy(PASSWORD) /\ ~StrictEq(request.header, PASSWORD)) =>
          /\ response = Unauthorized401
          /\ calls = <<>>
     /\ (Authorized /\ Reaches) =>
          /\ Len(calls) = 1
          /\ calls[1].op = "put"
          /\ calls[1].key =
               (IF Prop(request.body, "saveConfig") = Some("ai") THEN "ai_config"
                ELSE IF Prop(request.body, "saveConfig") = Some("website")
                THEN "website_config"
                ELSE "app_data")

\* C9 witness: a save of app data on a server without PASSWORD has been
\* answered 500, the header being the password another deployment uses
C9_Witness ==
  /\ request.handler = "storage.post"
  /\ Answered
  /\ IsAppDataBody(request.body)
  /\ PASSWORD = None
  /\ request.header = Some("pw")
  /\ response.status = 500

\* C10: a save of the search config is answered 401 without a call to the
\* store when PASSWORD is set and the header is missing or different; it is
\* written when the header equals PASSWORD, and with any header or none when
\* PASSWORD is unset (or empty).
C10_SearchSaveGate ==
  (/\ request.handler = "storage.post"
   /\ Answered
   /\ IsSearchSave(request.body))
  => /\ (Truthy(PASSWORD) /\ ~StrictEq(request.header, PASSWORD)) =>
          /\ response = Unauthorized401
          /\ calls = <<>>
     /\ ((~Truthy(PASSWORD) \/ StrictEq(request.header, PASSWORD)) /\ Reaches) =>
          /\ Len(calls) = 1
          /\ calls[1].op = "put"
          /\ calls[1].key = "search_config"
          /\ calls[1].value = JSONstringify(request.body.config)
          /\ calls[1].served =>
               /\ kv["search_config"] = Some(JSONstringify(request.body.config))
               /\ response = Response(200, SuccessBody)

\* C10 witness: the search config has been written for a request without a
\* password on a server without PASSWORD
C10_Witness ==
  /\ request.handler = "storage.post"
  /\ Answered
  /\ IsSearchSave(request.body)
  /\ PASSWORD = None
  /\ request.header = None
  /\ response.status = 200
  /\ kv["search_config"] = Some(JSONstringify(request.body.config))

ConfigKinds == {"ai", "search", "website"}
ConfigKey(x) == x \o "_config"

\* a storage POST body that saves the config of kind x
IsConfigSave(body, x) ==
  /\ ~IsMalformed(body)
  /\ Prop(body, "authOnly") # Some(TRUE)
  /\ Prop(body, "saveConfig") = Some(x)

\* the request passes the gate of the save of kind x
Accepted(x) ==
  IF x = "search" THEN ~Truthy(PASSWORD) \/ StrictEq(request.header, PASSWORD)
  ELSE Authorized

\* C11: for X in ai, search, website, a save of X that passes the gate is
\* never refused for what its config c holds: it issues the write of
\* JSON.stringify(c) to X_config and, the store serving it, is answered
\* success with X_config holding exactly that text; a GET with getConfig = X
\* whose read is served returns exactly the text X_config holds; and X_config
\* changes only by an accepted save of X.
C11_ConfigRoundTrip ==
  /\ [](\A x \in ConfigKinds :
          /\ (/\ request.handler = "storage.post"
              /\ Answered
              /\ IsConfigSave(request.body, x)
              /\ Accepted(x)
              /\ Reaches)
             => /\ Len(calls) = 1
                /\ calls[1].op = "put"
                /\ calls[1].key = ConfigKey(x)
                /\ calls[1].value = JSONstringify(request.body.config)
                /\ response.status \in {200, 500}
                /\ calls[1].served =>
                     /\ kv[ConfigKey(x)] = Some(JSONstringify(request.body.config))
                     /\ response = Response(200, SuccessBody)
          /\ (/\ request.handler = "storage.get"
              /\ Answered
              /\ Prop(request.body, "checkAuth") # Some("true")
              /\ Prop(request.body, "getConfig") = Some(x)
              /\ Len(calls) = 1
              /\ calls[1].served
              /\ kv[ConfigKey(x)] # None)
             => response = RawResponse(200, kv[ConfigKey(x)][1]))
  /\ [][\A x \in ConfigKinds :
          kv'[ConfigKey(x)] # kv[ConfigKey(x)] =>
            /\ request'.handler = "storage.post"
            /\ IsConfigSave(request'.body, x)
            /\ kv'[ConfigKey(x)] = Some(JSONstringify(request'.body.config))]_vars

\* C11 witness: a GET with getConfig=ai returns a config of an empty string
\* and an empty list that a save has stored
C11_Witness ==
  /\ request.handler = "storage.get"
  /\ Answered
  /\ Prop(request.body, "getConfig") = Some("ai")
  /\ kv["ai_config"] = Some(JSONstringify([apiKey |-> "", models |-> <<>>]))
  /\ response = RawResponse(200, kv["ai_config"][1])

\* a GET with getConfig=true and the right password is answered in the step,
\* every call to the store having been served
AuthenticatedGetStep ==
  /\ response = NoResponse
  /\ response' # NoResponse
  /\ request'.handler = "storage.get"
  /\ Prop(request'.body, "getConfig") = Some("true")
  /\ Truthy(request'.header)
  /\ StrictEq(request'.header, PASSWORD)
  /\ \A i \in 1..Len(calls') : calls'[i].served

\* what the step does when `expired` is the verdict on the state before it
ExpiryVerdict(expired) ==
  IF expired
  THEN /\ response' = Response(401, ErrorBody(MsgPasswordExpired))
       /\ kv' = kv
  ELSE /\ response' = (IF kv["app_data"] = None THEN Response(200, EmptyAppData)
                       ELSE RawResponse(200, kv["app_data"][1]))
       /\ kv' = [kv EXCEPT !["last_auth_time"] = Some(toString(now))]

StoredExpiryDays == Prop(JSONparse(kv["website_config"][1]), "passwordExpiryDays")

\* C12 as stated: the password is expired exactly when last_auth_time is
\* stored and now - last_auth_time exceeds passwordExpiryDays x 86,400,000 ms,
\* passwordExpiryDays being the value of website_config and 7 without one.
C12_ExpiryByStoredDays ==
  [][AuthenticatedGetStep =>
       LET days == IF kv["website_config"] = None \/ StoredExpiryDays = None
                   THEN 7 ELSE StoredExpiryDays[1]
       IN ExpiryVerdict(/\ kv["last_auth_time"] # None
                        /\ now - parseInt(kv["last_auth_time"][1]) > days * 86400000)]_vars

\* C12, amended: the period is the passwordExpiryDays of website_config when
\* that is a number above 0, and 7 days when website_config is absent or its
\* passwordExpiryDays is absent or 0; a passwordExpiryDays below 0 switches
\* the expiry off.  A GET with getConfig=true and the right password is
\* answered 401 as expired exactly when last_auth_time is stored and
\* now - last_auth_time exceeds the period, and otherwise returns the app data
\* and sets last_auth_time to now; an authOnly POST with the right password
\* sets last_auth_time to now.
C12_ExpiryByEffectiveDays ==
  [][/\ AuthenticatedGetStep =>
          LET given == IF kv["website_config"] = None THEN None ELSE StoredExpiryDays
              days == IF given = None \/ given = Some(0) THEN 7 ELSE given[1]
          IN ExpiryVerdict(/\ days > 0
                           /\ kv["last_auth_time"] # None
                           /\ now - parseInt(kv["last_auth_time"][1]) > days * 86400000)
     /\ (/\ response = NoResponse
         /\ response' # NoResponse
         /\ request'.handler = "storage.post"
         /\ Prop(request'.body, "authOnly") = Some(TRUE)
         /\ Truthy(PASSWORD)
         /\ StrictEq(request'.header, PASSWORD)
         /\ \A i \in 1..Len(calls') : calls'[i].served)
        => /\ response' = Response(200, SuccessBody)
           /\ kv' = [kv EXCEPT !["last_auth_time"] = Some(toString(now))]]_vars

\* C12 witness: without a website_config, a GET with the right password is
\* answered as expired 7 days and a millisecond after the last authentication
C12_Witness ==
  /\ request.handler = "storage.get"
  /\ Answered
  /\ Authorized
  /\ response = Response(401, ErrorBody(MsgPasswordExpired))
  /\ kv["website_config"] = None
  /\ kv["last_auth_time"] # None
  /\ now - parseInt(kv["last_auth_time"][1]) = 7 * 86400000 + 1

\* a storage POST body that saves a favicon, domain and icon given
IsFaviconSave(body) ==
  /\ ~IsMalformed(body)
  /\ Prop(body, "authOnly") # Some(TRUE)
  /\ Prop(body, "saveConfig") = Some("favicon")
  /\ Truthy(Prop(body, "domain"))
  /\ Truthy(Prop(body, "icon"))

\* C13 as stated: the write a favicon save issues to the store, of the icon
\* under favicon:<domain>, carries the expiration of 2,592,000 seconds.
C13_FaviconTtlPassedThrough ==
  (/\ request.handler = "storage.post"
   /\ Answered
   /\ IsFaviconSave(request.body)
   /\ Reaches)
  => /\ Len(calls) = 1
     /\ calls[1].op = "put"
     /\ calls[1].key = FaviconKey(request.body.domain)
     /\ calls[1].value = request.body.icon
     /\ calls[1].expiration = Some(2592000)

\* the one read of the GET in `request` found nothing under `key`: no value
\* is stored, or the read failed, or the binding is missing
FoundNothing(key) ==
  \/ kv[key] = None
  \/ calls = <<>>
  \/ ~calls[1].served

\* C14: a storage GET whose key holds no value, or whose read fails, is
\* answered 200 with the default of its kind: {links: [], categories: []}
\* for app data, {} for getConfig=ai and getConfig=search,
\* {passwordExpiryDays: 7} for getConfig=website and {icon: null, cached:
\* false} for getConfig=favicon with a domain.
C14_DefaultsWhenAbsent ==
  (/\ request.handler = "storage.get"
   /\ Answered
   /\ Prop(request.body, "checkAuth") # Some("true"))
  => LET getConfig == Prop(request.body, "getConfig")
     IN /\ (getConfig \in {None, Some("other")} /\ FoundNothing("app_data"))
           => response = [status |-> 200,
                          body |-> JSONstringify([links |-> <<>>, categories |-> <<>>])]
        /\ (getConfig = Some("ai") /\ FoundNothing("ai_config"))
           => response = [status |-> 200, body |-> JSONstringify(EmptyObject)]
        /\ (getConfig = Some("search") /\ FoundNothing("search_config"))
           => response = [status |-> 200, body |-> JSONstringify(EmptyObject)]
        /\ (getConfig = Some("website") /\ FoundNothing("website_config"))
           => response = [status |-> 200,
                          body |-> JSONstringify([passwordExpiryDays |-> 7])]
        /\ (/\ getConfig = Some("favicon")
            /\ Truthy(Prop(request.body, "domain"))
            /\ FoundNothing(FaviconKey(request.body.domain)))
           => response = [status |-> 200,
                          body |-> JSONstringify([icon |-> None, cached |-> FALSE])]

\* C14 witness: the read of a stored website_config fails and the GET is
\* answered with the default
C14_Witness ==
  /\ request.handler = "storage.get"
  /\ Answered
  /\ Prop(request.body, "getConfig") = Some("website")
  /\ kv["website_config"] # None
  /\ Len(calls) = 1
  /\ ~calls[1].served
  /\ response.status = 200
  /\ JSONparse(response.body) = [passwordExpiryDays |-> 7]

WebdavAnswered == request.handler = "webdav.post" /\ Answered

\* the request holds a config with a url, a username and a password
HasWebdavConfig(body) ==
  /\ "config" \in DOMAIN body
  /\ "url" \in DOMAIN body.config /\ body.config.url # <<>>
  /\ "username" \in DOMAIN body.config /\ body.config.username # ""
  /\ "password" \in DOMAIN body.config /\ body.config.password # ""

HasWebdavOperation(body) ==
  "operation" \in DOMAIN body /\ body.operation \in {"check", "upload", "download"}

\* the base URLs of WebdavUrls, by inspection
ExpectedBaseUrl(url) ==
  CASE url = <<"h", ":", "/", "d">> -> <<"h", ":", "/", "d", "/">>
    [] url = <<"h", ":", "/", "d", "/">> -> <<"h", ":", "/", "d", "/">>
    [] url = <<" ", "h", ":", "/", "d", " ">> -> <<"h", ":", "/", "d", "/">>
    [] url = <<" ">> -> <<"/">>
    [] url = <<"h", ":", "/", " ", "d", "/", " ">> -> <<"h", ":", "/", " ", "d", "/">>

ExpectedFileUrl(body) ==
  ExpectedBaseUrl(body.config.url)
    \o (IF "filename" \in DOMAIN body /\ body.filename # <<>> THEN body.filename
        ELSE DefaultFilename)

\* C15: a call of the WebDAV handler issues at most one outbound request; a
\* config lacking url, username or password, or an operation other than
\* check, upload and download, is answered 400 without one; otherwise check
\* sends PROPFIND with Depth 0 to the base URL, upload sends PUT of the JSON
\* payload to the file URL and download sends GET to the file URL, the base
\* URL being the trimmed config.url ending in one appended '/' where it had
\* none, the file URL the base URL followed by the filename or
\* 'cloudnav_backup.json'.
C15_OneOutboundRequest ==
  WebdavAnswered =>
    LET body == request.body
    IN /\ Len(calls) <= 1
       /\ IsMalformed(body) => calls = <<>>
       /\ (~IsMalformed(body) /\ ~(HasWebdavConfig(body) /\ HasWebdavOperation(body)))
          => response.status = 400 /\ calls = <<>>
       /\ (~IsMalformed(body) /\ HasWebdavConfig(body) /\ HasWebdavOperation(body))
          => /\ Len(calls) = 1
             /\ calls[1].op = "fetch"
             /\ body.operation = "check" =>
                  /\ calls[1].method = "PROPFIND"
                  /\ calls[1].headers["Depth"] = "0"
                  /\ calls[1].url = ExpectedBaseUrl(body.config.url)
                  /\ calls[1].body = None
             /\ body.operation = "upload" =>
                  /\ calls[1].method = "PUT"
                  /\ calls[1].url = ExpectedFileUrl(body)
                  /\ "payload" \in DOMAIN body =>
                       calls[1].body = Some(JSONstringify(body.payload))
             /\ body.operation = "download" =>
                  /\ calls[1].method = "GET"
                  /\ calls[1].url = ExpectedFileUrl(body)
                  /\ calls[1].body = None

\* C15 witness: an upload without filename to a URL with blanks around it
\* and no '/' at its end
C15_Witness ==
  /\ WebdavAnswered
  /\ Len(calls) = 1
  /\ calls[1].method = "PUT"
  /\ request.body.config.url = <<" ", "h", ":", "/", "d", " ">>
  /\ "filename" \notin DOMAIN request.body
  /\ calls[1].url = <<"h", ":", "/", "d", "/">> \o DefaultFilename

\* C16: check and upload are answered 200 with {success, status}, success
\* being true exactly for a remote status of 2xx; download is answered 404
\* 'Backup file not found' for a remote 404, the remote status with a
\* 'WebDAV Error' body for another status outside 2xx, and 200 with the JSON
\* downloaded for a 2xx; a request that fails or a body that is no JSON is
\* answered 500.
C16_RemoteResultMapping ==
  (WebdavAnswered /\ Len(calls) = 1) =>
    LET a == calls[1].answer
        operation == request.body.operation
    IN /\ a.kind = "throw" => response.status = 500
       /\ (a.kind = "status" /\ operation \in {"check", "upload"})
          => response = [status |-> 200,
                         body |-> JSONstringify([success |-> a.status \in 200..299,
                                                 status |-> a.status])]
       /\ (a.kind = "status" /\ operation = "download")
          => /\ a.status = 404 =>
                  response = Response(404, ErrorBody("Backup file not found"))
             /\ (a.status \notin 200..299 /\ a.status # 404) =>
                  /\ response.status = a.status
                  /\ JSONparse(response.body).error = "WebDAV Error: " \o ToString(a.status)
             /\ (a.status \in 200..299 /\ a.body # None) =>
                  response = [status |-> 200, body |-> a.body[1]]
             /\ (a.status \in 200..299 /\ a.body = None) => response.status = 500

\* C16 witness: a check the remote server answers with 207
C16_Witness ==
  /\ WebdavAnswered
  /\ Len(calls) = 1
  /\ request.body.operation = "check"
  /\ calls[1].answer.kind = "status"
  /\ calls[1].answer.status = 207
  /\ response = Response(200, [success |-> TRUE, status |-> 207])

\* the calls of kind op that a sequence of calls makes to key k
CallsTo(cs, op, k) == {i \in 1..Len(cs) : cs[i].op = op /\ cs[i].key = k}

\* C17: a handler invocation makes at most one write to the store and reads
\* each key at most once, whether the calls are served or fail; so no failed
\* call is made again.
C17_NoRetry ==
  /\ Answered =>
       /\ Cardinality({i \in 1..Len(calls) : calls[i].op = "put"}) <= 1
       /\ \A k \in Keys : Cardinality(CallsTo(calls, "get", k)) <= 1
  /\ \A s \in Slots :
       pending[s].pc = "read" =>
         /\ Len(pending[s].calls) = 1
         /\ pending[s].calls[1].op = "get"

\* C17 witness: a GET with getConfig=true whose first read failed has gone on
\* to its other calls and has been answered
C17_Witness ==
  /\ request.handler = "storage.get"
  /\ Answered
  /\ Len(calls) = 4
  /\ ~calls[1].served
  /\ ~calls[4].served
  /\ calls[4].op = "put"

\* C18: the id of an inserted link is the decimal string of the clock value
\* at the insertion; an insertion is not held back by a stored link of the
\* same id: its write served, it is answered success and app_data holds the
\* new link in front of the links read, of which those inserted at the same
\* clock value, and only those, have the id of the new link.
C18_TimestampIds ==
  pending[1].pc = "done" =>
    LET link == pending[1].link
        before == ReadData(pending[1]).links
    IN /\ link.id = toString(now)
       /\ parseInt(link.id) = now
       /\ link.createdAt = now
       /\ now = 0 => link.id = <<"0">>
       /\ now = 86400001 => link.id = <<"8", "6", "4", "0", "0", "0", "0", "1">>
       /\ pending[1].stored =>
            /\ response.status = 200
            /\ JSONparse(response.body).success
            /\ JSONparse(response.body).link = link
            /\ StoredLinks(kv) = <<link>> \o before
       /\ \A i \in 1..Len(before) : (before[i].id = link.id) <=> (before[i].createdAt = now)

\* C18 witness: app_data holds two links of one id and a third of another
C18_Witness ==
  /\ pending[1].pc = "done"
  /\ pending[1].stored
  /\ Len(StoredLinks(kv)) = 3
  /\ StoredLinks(kv)[1].id = StoredLinks(kv)[2].id
  /\ StoredLinks(kv)[1].id # StoredLinks(kv)[3].id

\* the categories of the document a finished insertion has written
WrittenCategories == JSONparse(pending[1].written).categories

\* C19 as stated: after a successful insertion the new link's categoryId is
\* the id of a category of the app_data written, whatever was stored before.
C19_CategoryExists ==
  Inserted =>
    \E i \in 1..Len(WrittenCategories) :
      WrittenCategories[i].id = pending[1].link.categoryId

\* C19, amended: after a successful insertion that read a category list
\* which is not empty, the new link's categoryId is the id of a category of
\* the app_data written; after one that read no app_data or an empty
\* category list, the link's categoryId is 'common' and the app_data written
\* holds no category.  The categories written are those read.
C19_CategoryExistsUnlessEmpty ==
  Inserted =>
    /\ WrittenCategories = SearchedCategories
    /\ pending[1].stored => StoredCategories(kv) = WrittenCategories
    /\ Len(SearchedCategories) > 0 =>
         \E i \in 1..Len(WrittenCategories) :
           WrittenCategories[i].id = pending[1].link.categoryId
    /\ Len(SearchedCategories) = 0 =>
         /\ pending[1].link.categoryId = "common"
         /\ WrittenCategories = <<>>

\* C19 witness: a link of category 'common' is stored in an app_data without
\* categories
C19_Witness ==
  /\ Inserted
  /\ pending[1].stored
  /\ StoredCategories(kv) = <<>>
  /\ StoredLinks(kv)[1].categoryId = "common"

====
